---- MODULE Spec2Model ----
(***************************************************************************)
(* Model of backend/server.js: the in-memory Store (questions, answers),   *)
(* the SSE subscriber list (clients) with broadcast, and the               *)
(* POST /api/questions handler, one process per submission, suspended at   *)
(* its awaits (fetch of the text stream, reader.read, fetch of the scene). *)
(* Strings are sequences of one-character strings; uuidv4() is a counter   *)
(* (every call returns a value never returned before); timestamps are not  *)
(* tracked.  The 25 s heartbeat of /api/stream writes a ping to its own     *)
(* channel only and touches none of the stores; it is left out.            *)
(*                                                                         *)
(* The second part models the viewer (function App): the selected Answer,  *)
(* the play flag, the two refs of the animation loop, the callbacks that   *)
(* requestAnimationFrame holds, and the canvas.  Server and viewer are     *)
(* explored separately: the events a viewer receives are inputs.           *)
(***************************************************************************)
EXTENDS Integers, Sequences, FiniteSets, TLC

\* ---------------------------------------------------------------- bounds
MaxSubs == 2      \* submissions (POST /api/questions requests)
MaxConns == 1     \* connections ever opened on GET /api/stream
MaxChunks == 2    \* chunks reader.read() yields before the stream ends
HubConns == 2     \* connections opened where one submission meets several viewers
RaceConns == 1    \* connections opened while submissions race
LiveConns == 1    \* connections opened where every await settles
MaxAnswers == 2   \* Answers a viewer receives in answer_created
LastInput == 3    \* last frame at which a viewer still clicks or receives an Answer
MaxHandles == 4   \* requestAnimationFrame calls after which a viewer gets no more input
EvalSteps == 4    \* the evaluator is called at the progress values k / EvalSteps (and k / 5)

VARIABLES
  questions,   \* const questions = []
  answers,     \* const answers = []
  clients,     \* const clients = []   (sequence of client ids; c.res is the channel of id c)
  broken,      \* ids of channels whose res.write throws
  log,         \* every event written to a channel: what was sent, by whom, to whom
  subs,        \* one POST /api/questions invocation per index: its locals and its position
               \* pc: "idle" (not arrived), "fetchText", "reading", "fetchViz" (suspended at
               \* that await), "rejected" (line 181), "completed" (line 205), "fallback" (line 216)
  uuid         \* number of uuidv4() calls made so far

vars == <<questions, answers, clients, broken, log, subs, uuid>>

Subs == 1..MaxSubs

VARIABLES
  selectedAnswer,  \* useState(null): the Answer of the last render, NoAnswer for null
  isPlaying,       \* useState(false): the flag of the last render
  queued,          \* the state the queued setSelectedAnswer / setIsPlaying calls lead to
  animationRef,    \* animationRef.current: a requestAnimationFrame handle, 0 for null
  startTimeRef,    \* startTimeRef.current: a timestamp, 0 for null
  raf,             \* callbacks requestAnimationFrame holds: handle, the Answer its animate
                   \* closed over, the time it was requested at
  handles,         \* number of requestAnimationFrame calls made so far
  now,             \* the clock the frame timestamps are read from (ms)
  pausedMs,        \* time that passed with isPlaying false since the last tick
  received,        \* ids of the Answers that arrived in answer_created
  canvas           \* the last operation on the canvas

player == <<selectedAnswer, isPlaying, queued, animationRef, startTimeRef, raf, handles,
            now, pausedMs, received, canvas>>

\* ---------------------------------------------------------------- values
\* A JSON value as the handlers look at it: its type, its number, its string.
Undef == [t |-> "undef", n |-> 0, s |-> <<>>]
Num(k) == [t |-> "num", n |-> k, s |-> <<>>]
Str(chars) == [t |-> "str", n |-> 0, s |-> chars]

\* Truthy with the empty string taken for a value (a check for undefined only).
TruthyUnlessUndefined(v) == v.t # "undef"

\* JavaScript truthiness, as used by !userId, !question, v.duration || 8000.
Truthy(v) ==
  CASE v.t = "undef" -> FALSE
    [] v.t = "num" -> v.n # 0
    [] v.t = "str" -> v.s # <<>>
    [] OTHER -> TRUE

\* `${v}`: the string a template literal makes of a value.
RECURSIVE Digits(_)
Digits(k) == IF k < 10 THEN <<ToString(k)>> ELSE Digits(k \div 10) \o <<ToString(k % 10)>>
TemplateString(v) ==
  CASE v.t = "undef" -> <<"u", "n", "d", "e", "f", "i", "n", "e", "d">>
    [] v.t = "num" -> IF v.n < 0 THEN <<"-">> \o Digits(0 - v.n) ELSE Digits(v.n)
    [] OTHER -> v.s

\* String.prototype.trim on a sequence of characters.
RECURSIVE TrimLeft(_)
TrimLeft(str) == IF str # <<>> /\ Head(str) = " " THEN TrimLeft(Tail(str)) ELSE str
RECURSIVE TrimRight(_)
TrimRight(str) ==
  IF str # <<>> /\ str[Len(str)] = " " THEN TrimRight(SubSeq(str, 1, Len(str) - 1)) ELSE str
trim(str) == TrimRight(TrimLeft(str))

NoId == <<>>
QuestionId(k) == <<"q_", k>>
AnswerId(k) == <<"a_", k>>


\* ---------------------------------------------------------------- broadcast
\* clients.forEach(c => { try { c.res.write(..); c.res.write(..) } catch {} }):
\* the channels the event reached, the channels whose write threw, and
\* whether an exception left the loop.
RECURSIVE forEachClient(_, _, _)
forEachClient(cs, br, acc) ==
  IF cs = <<>> THEN acc
  ELSE IF Head(cs) \in br
       THEN forEachClient(Tail(cs), br, [acc EXCEPT !.failed = @ \cup {Head(cs)}])
       ELSE forEachClient(Tail(cs), br, [acc EXCEPT !.to = @ \cup {Head(cs)}])

\* The loop without its try/catch: the first write that throws ends it.
RECURSIVE forEachClientUncaught(_, _, _)
forEachClientUncaught(cs, br, acc) ==
  IF cs = <<>> THEN acc
  ELSE IF Head(cs) \in br
       THEN [acc EXCEPT !.failed = @ \cup {Head(cs)}, !.raised = TRUE]
       ELSE forEachClientUncaught(Tail(cs), br, [acc EXCEPT !.to = @ \cup {Head(cs)}])

deliverUncaught(cs, br) ==
  forEachClientUncaught(cs, br, [to |-> {}, failed |-> {}, raised |-> FALSE])

deliver(cs, br) == forEachClient(cs, br, [to |-> {}, failed |-> {}, raised |-> FALSE])

\* broadcast(event, data) from submission `by`; the subscriber list is left as it is.
broadcast(lg, cs, br, event, data, by) ==
  LET d == deliver(cs, br)
  IN Append(lg, [event |-> event, data |-> data, by |-> by,
                 to |-> d.to, failed |-> d.failed, raised |-> d.raised])

BroadcastEvents == {"question_created", "generation_started", "answer_partial", "answer_created"}

\* ---------------------------------------------------------------- text stream
\* The body of the streamed response is a sequence of atoms: the separator
\* "\n\n" and pieces of text that a chunk boundary does not cut.
SEP == "\n\n"
DeltaAtoms == {"data:a", "data:b"}                  \* data: {"choices":[{"delta":{"content":"a"}}]}
DataAtoms == DeltaAtoms \cup {"data:", "data:[DONE]", "data:{"}
   \* "data:" carries an empty delta, "data:{" is not JSON
Atoms == DataAtoms \cup {":comment", SEP}

\* buffer.split('\n\n'): the pieces between separators, the last one being
\* what follows the last separator (empty when the buffer ends with one).
RECURSIVE split(_, _, _)
split(buffer, cur, parts) ==
  IF buffer = <<>> THEN Append(parts, cur)
  ELSE IF Head(buffer) = SEP
       THEN split(Tail(buffer), <<>>, Append(parts, cur))
       ELSE split(Tail(buffer), Append(cur, Head(buffer)), parts)

\* What one part hands to onDelta: <<>> when it is skipped.
partDelta(part) ==
  IF part = <<>> \/ Head(part) \notin DataAtoms THEN <<>>     \* !part.startsWith('data:')
  ELSE IF part = <<"data:[DONE]">> THEN <<>>                  \* json === '[DONE]'
  ELSE IF Len(part) # 1 \/ Head(part) = "data:{" \/ Head(part) = "data:[DONE]"
       THEN <<>>                                                \* JSON.parse throws, catch {}
  ELSE IF Head(part) = "data:a" THEN <<"a">>
  ELSE IF Head(part) = "data:b" THEN <<"b">>
  ELSE <<>>                                                     \* delta === '' : no call

RECURSIVE partDeltas(_)
partDeltas(parts) ==
  IF parts = <<>> THEN <<>>
  ELSE LET d == partDelta(Head(parts))
       IN (IF d = <<>> THEN <<>> ELSE <<d>>) \o partDeltas(Tail(parts))

\* processBuffer(buffer, onDelta): the buffer it returns and the deltas it
\* passes to onDelta, in order.
processBuffer(buffer) ==
  LET all == split(buffer, <<>>, <<>>)
  IN [buffer |-> all[Len(all)],
      deltas |-> partDeltas(SubSeq(all, 1, Len(all) - 1))]

\* onChunk broadcasting the delta alone, the accumulator kept as in the code.
RECURSIVE onChunkDelta(_, _, _, _, _, _)
onChunkDelta(deltas, text, lg, cs, br, s) ==
  IF deltas = <<>> THEN [text |-> text, log |-> lg]
  ELSE onChunkDelta(Tail(deltas), text \o Head(deltas),
                    broadcast(lg, cs, br, "answer_partial",
                              [id |-> s.answerId, textPartial |-> Head(deltas),
                               questionId |-> s.questionId],
                              s.idx),
                    cs, br, s)

\* onChunk with text = delta in place of text += delta.
RECURSIVE onChunkAssign(_, _, _, _, _, _)
onChunkAssign(deltas, text, lg, cs, br, s) ==
  IF deltas = <<>> THEN [text |-> text, log |-> lg]
  ELSE onChunkAssign(Tail(deltas), Head(deltas),
                     broadcast(lg, cs, br, "answer_partial",
                               [id |-> s.answerId, textPartial |-> Head(deltas),
                                questionId |-> s.questionId],
                               s.idx),
                     cs, br, s)

\* The onChunk callback of the handler, applied to each delta in turn:
\* text += delta; broadcast('answer_partial', {id: answerId, textPartial: text, questionId}).
RECURSIVE onChunk(_, _, _, _, _, _)
onChunk(deltas, text, lg, cs, br, s) ==
  IF deltas = <<>> THEN [text |-> text, log |-> lg]
  ELSE LET t == text \o Head(deltas)
       IN onChunk(Tail(deltas), t,
                  broadcast(lg, cs, br, "answer_partial",
                            [id |-> s.answerId, textPartial |-> t, questionId |-> s.questionId],
                            s.idx),
                  cs, br, s)

\* ---------------------------------------------------------------- scene JSON
\* What the chat-completion reply holds as message content, after
\* JSON.parse: `parse` tells whether it parsed and to what kind of value.
DefaultDuration == 8000
FallbackDuration == 7000

VizReply(parse, hasViz, duration, layersIsArray, layers) ==
  [parse |-> parse, hasViz |-> hasViz, duration |-> duration,
   layersIsArray |-> layersIsArray, layers |-> layers]

\* groqVizJSON from `const data = await resp.json()` on: the visualization
\* of the object it returns, or threw |-> TRUE when it throws (parsed is not
\* an object, so that parsed.visualization cannot be read or assigned).
groqVizJSON(reply) ==
  IF reply.parse = "nonobject" THEN [threw |-> TRUE, duration |-> Undef, layers |-> <<>>]
  ELSE LET v == IF reply.parse = "fail" \* catch: the literal default object
                THEN [present |-> TRUE, duration |-> Num(DefaultDuration), isArray |-> TRUE, layers |-> <<>>]
                ELSE IF reply.hasViz
                THEN [present |-> TRUE, duration |-> reply.duration,
                      isArray |-> reply.layersIsArray, layers |-> reply.layers]
                ELSE [present |-> FALSE, duration |-> Undef, isArray |-> FALSE, layers |-> <<>>]
       IN [threw |-> FALSE,
           duration |-> IF Truthy(v.duration) THEN v.duration ELSE Num(DefaultDuration),
           layers |-> IF v.isArray THEN v.layers ELSE <<>>]

\* ---------------------------------------------------------------- inputs
\* Request bodies: userId absent or present; question absent, empty,
\* a string with a leading blank, or a JSON number.
UserIds == {Undef, Str(<<"u">>)}
Questions == {Undef, Str(<<>>), Str(<<" ", "q">>), Num(42)}
Bodies ==
  {b \in [userId : UserIds, question : Questions] :
     b.userId = Undef => b.question = Str(<<" ", "q">>)}

\* Chunks reader.read() may yield: a frame without its separator, the
\* separator alone, a whole frame, two whole frames, and four frames that
\* processBuffer skips (a comment, [DONE], broken JSON, an empty delta).
Chunks ==
  { <<"data:a">>,
    <<SEP>>,
    <<"data:b", SEP>>,
    <<"data:a", SEP, "data:b", SEP>>,
    <<":comment", SEP, "data:[DONE]", SEP, "data:{", SEP, "data:", SEP>> }

VizReplies ==
  { VizReply("fail", FALSE, Undef, FALSE, <<>>),
    VizReply("nonobject", FALSE, Undef, FALSE, <<>>),
    VizReply("object", FALSE, Undef, FALSE, <<>>),
    VizReply("object", TRUE, Num(9000), TRUE, <<"layer">>),
    VizReply("object", TRUE, Num(0), FALSE, <<>>),
    VizReply("object", TRUE, Num(0 - 5000), TRUE, <<>>),
    VizReply("object", TRUE, Str(<<"l", "o", "n", "g">>), TRUE, <<"layer">>) }

\* ---------------------------------------------------------------- viewer values
FrameMs == 1000               \* time between two display frames
PlayerDefaultDuration == 6000 \* selectedAnswer.visualization.duration || 6000

NoAnswer == [id |-> 0, visualization |-> Undef]
NoScene == Undef              \* an Answer object without visualization

\* An Answer as answer_created delivers it: its id and its visualization.
Answer(k, duration) == [id |-> k, visualization |-> [duration |-> duration, layers |-> <<>>]]

\* The Answers a viewer receives: durations of 2000, 3000, ... ms.
PlayAnswers == {Answer(k, Num(1000 * (k + 1))) : k \in 1..MaxAnswers}

NoDraw == [op |-> "none", answer |-> 0, progress |-> [nan |-> FALSE, num |-> 0, den |-> 1],
           elapsed |-> 0, ts |-> 0, handle |-> 0, frame |-> <<>>]

PlayerInit ==
  /\ selectedAnswer = NoAnswer
  /\ isPlaying = FALSE
  /\ queued = [selectedAnswer |-> NoAnswer, isPlaying |-> FALSE]
  /\ animationRef = 0
  /\ startTimeRef = 0
  /\ raf = {}
  /\ handles = 0
  /\ now = 0
  /\ pausedMs = 0
  /\ received = {}
  /\ canvas = NoDraw

\* ---------------------------------------------------------------- state
NoResponse == [status |-> 0, success |-> FALSE, questionId |-> NoId, answerId |-> NoId]

Init ==
  /\ questions = <<>>
  /\ answers = <<>>
  /\ clients = <<>>
  /\ broken = {}
  /\ log = <<>>
  /\ subs = [s \in Subs |->
               [idx |-> s, pc |-> "idle", body |-> [userId |-> Undef, question |-> Undef],
                questionId |-> NoId, answerId |-> NoId, text |-> <<>>, buffer |-> <<>>,
                nread |-> 0, response |-> NoResponse]]
  /\ uuid = 0
  /\ PlayerInit

\* ---------------------------------------------------------------- POST /api/questions
\* The fallback Answer with the duration groqVizJSON defaults to.
fallbackAnswerDefaultDuration(body, k) ==
  [id |-> AnswerId(k),
   text |-> <<"Here is a brief overview of \"">> \o TemplateString(body.question) \o <<"\".">>,
   visualization |-> [duration |-> Num(DefaultDuration), layers |-> <<>>]]

\* The fallback Answer of the catch block (lines 208-213), its id made by the
\* uuidv4() call number k.
fallbackAnswer(body, k) ==
  [id |-> AnswerId(k),
   text |-> <<"Here is a brief overview of \"">> \o TemplateString(body.question) \o <<"\".">>,
   visualization |-> [duration |-> Num(FallbackDuration), layers |-> <<>>]]

\* The catch block without answers.push(fallback).
CatchWithoutPush(s, sub, lg, u) ==
  /\ answers' = answers
  /\ log' = broadcast(lg, clients, broken, "answer_created",
                      [id |-> AnswerId(u + 1),
                       text |-> <<"Here is a brief overview of \"">>
                                  \o TemplateString(sub.body.question) \o <<"\".">>,
                       visualization |-> [duration |-> Num(FallbackDuration), layers |-> <<>>]],
                      s)
  /\ uuid' = u + 2
  /\ subs' = [subs EXCEPT ![s] =
                [sub EXCEPT !.pc = "fallback",
                            !.response = [status |-> 200, success |-> TRUE,
                                          questionId |-> QuestionId(u + 2),
                                          answerId |-> AnswerId(u + 1)]]]

\* The catch block storing the fallback in place of the Answers held so far.
CatchReplacesAnswers(s, sub, lg, u) ==
  LET fallback == fallbackAnswer(sub.body, u + 1)
  IN /\ answers' = <<fallback>>
     /\ log' = broadcast(lg, clients, broken, "answer_created", fallback, s)
     /\ uuid' = u + 2
     /\ subs' = [subs EXCEPT ![s] =
                   [sub EXCEPT !.pc = "fallback",
                               !.response = [status |-> 200, success |-> TRUE,
                                             questionId |-> QuestionId(u + 2),
                                             answerId |-> fallback.id]]]

\* catch (e) { ... } (lines 206-217), entered by submission s whose locals
\* are sub, with the log lg and u uuids used so far.
Catch(s, sub, lg, u) ==
  LET fallback == fallbackAnswer(sub.body, u + 1)
  IN /\ answers' = Append(answers, fallback)
     /\ log' = broadcast(lg, clients, broken, "answer_created", fallback, s)
     /\ uuid' = u + 2
     /\ subs' = [subs EXCEPT ![s] =
                   [sub EXCEPT !.pc = "fallback",
                               !.response = [status |-> 200, success |-> TRUE,
                                             questionId |-> QuestionId(u + 2),
                                             answerId |-> fallback.id]]]

\* The request arrives: validation, then the synchronous part of the handler
\* up to the first await (fetch inside groqStreamText).
Submit(s, body) ==
  /\ subs[s].pc = "idle"
  /\ \A r \in Subs : r < s => subs[r].pc # "idle"
  /\ LET sub == [subs[s] EXCEPT !.body = body]
     IN IF ~Truthy(body.userId) \/ ~Truthy(body.question)
        THEN \* return res.status(400).json({ error: ... })
             /\ subs' = [subs EXCEPT ![s] =
                           [sub EXCEPT !.pc = "rejected",
                                       !.response = [NoResponse EXCEPT !.status = 400]]]
             /\ UNCHANGED <<questions, answers, clients, broken, log, uuid>>
        ELSE IF body.question.t # "str"
        THEN \* question.trim is not a function: TypeError after both ids were made
             /\ Catch(s, [sub EXCEPT !.questionId = QuestionId(uuid + 1),
                                     !.answerId = AnswerId(uuid + 2)], log, uuid + 2)
             /\ UNCHANGED <<questions, clients, broken>>
        ELSE LET questionId == QuestionId(uuid + 1)
                 answerId == AnswerId(uuid + 2)
                 qrec == [id |-> questionId, userId |-> body.userId,
                          question |-> trim(body.question.s), answerId |-> answerId]
                 lg1 == broadcast(log, clients, broken, "question_created", qrec, s)
                 lg2 == broadcast(lg1, clients, broken, "generation_started",
                                  [id |-> answerId, questionId |-> questionId], s)
             IN /\ questions' = Append(questions, qrec)
                /\ log' = lg2
                /\ uuid' = uuid + 2
                /\ subs' = [subs EXCEPT ![s] =
                              [sub EXCEPT !.pc = "fetchText", !.questionId = questionId,
                                          !.answerId = answerId, !.text = <<>>]]
                /\ UNCHANGED <<answers, clients, broken>>

\* await fetch(url, ...) of groqStreamText settles with resp.ok.
TextFetchOk(s) ==
  /\ subs[s].pc = "fetchText"
  /\ subs' = [subs EXCEPT ![s].pc = "reading", ![s].buffer = <<>>]
  /\ UNCHANGED <<questions, answers, clients, broken, log, uuid>>

\* fetch rejects, or !resp.ok: throw new Error(`Groq stream ...`).
TextFetchError(s) ==
  /\ subs[s].pc = "fetchText"
  /\ Catch(s, subs[s], log, uuid)
  /\ UNCHANGED <<questions, clients, broken>>

\* await reader.read() yields a chunk: buffer += decode(value); processBuffer.
ReadChunk(s, chunk) ==
  /\ subs[s].pc = "reading"
  /\ subs[s].nread < MaxChunks
  /\ LET pb == processBuffer(subs[s].buffer \o chunk)
         oc == onChunk(pb.deltas, subs[s].text, log, clients, broken, subs[s])
     IN /\ subs' = [subs EXCEPT ![s].buffer = pb.buffer, ![s].text = oc.text,
                                ![s].nread = @ + 1]
        /\ log' = oc.log
  /\ UNCHANGED <<questions, answers, clients, broken, uuid>>

\* await reader.read() yields done: groqStreamText returns, groqVizJSON is called
\* and suspends at its fetch.
ReadDone(s) ==
  /\ subs[s].pc = "reading"
  /\ subs' = [subs EXCEPT ![s].pc = "fetchViz"]
  /\ UNCHANGED <<questions, answers, clients, broken, log, uuid>>

\* await reader.read() rejects (the connection drops mid-stream).
ReadError(s) ==
  /\ subs[s].pc = "reading"
  /\ Catch(s, subs[s], log, uuid)
  /\ UNCHANGED <<questions, clients, broken>>

\* The scene call settles with resp.ok and a reply: lines 159-175 and 200-205.
VizFetchOk(s, reply) ==
  /\ subs[s].pc = "fetchViz"
  /\ LET viz == groqVizJSON(reply)
     IN IF viz.threw
        THEN /\ Catch(s, subs[s], log, uuid)
             /\ UNCHANGED <<questions, clients, broken>>
        ELSE LET ans == [id |-> subs[s].answerId, text |-> subs[s].text,
                         visualization |-> [duration |-> viz.duration, layers |-> viz.layers]]
             IN /\ answers' = Append(answers, ans)
                /\ log' = broadcast(log, clients, broken, "answer_created", ans, s)
                /\ subs' = [subs EXCEPT ![s].pc = "completed",
                                        ![s].response = [status |-> 200, success |-> TRUE,
                                                         questionId |-> subs[s].questionId,
                                                         answerId |-> subs[s].answerId]]
                /\ UNCHANGED <<questions, clients, broken, uuid>>

\* The scene call's fetch rejects, or !resp.ok: throw new Error(`Groq viz ...`).
VizFetchError(s) ==
  /\ subs[s].pc = "fetchViz"
  /\ Catch(s, subs[s], log, uuid)
  /\ UNCHANGED <<questions, clients, broken>>

\* ---------------------------------------------------------------- GET /api/stream
\* The stream handler registering the channel without writing connected.
ConnectSilent(maxConns) ==
  /\ Len(clients) < maxConns
  /\ uuid < maxConns + 2 * MaxSubs
  /\ clients' = Append(clients, uuid + 1)
  /\ uuid' = uuid + 1
  /\ UNCHANGED <<questions, answers, broken, log, subs>>

\* openSSE, clients.push({ id, res }), then the connected event on res.
Connect(maxConns) ==
  /\ Cardinality({i \in 1..Len(log) : log[i].event = "connected"}) < maxConns
  /\ LET id == uuid + 1
     IN /\ clients' = Append(clients, id)
        /\ log' = Append(log, [event |-> "connected", data |-> [clientId |-> id], by |-> 0,
                               to |-> {id}, failed |-> {}, raised |-> FALSE])
        /\ uuid' = id
  /\ UNCHANGED <<questions, answers, broken, subs>>

\* clients.findIndex(c => c.id === id): the first index holding id, 0 for -1.
findIndex(cs, id) ==
  IF \E i \in 1..Len(cs) : cs[i] = id
  THEN CHOOSE i \in 1..Len(cs) : cs[i] = id /\ \A j \in 1..(i - 1) : cs[j] # id
  ELSE 0

\* The body of the close handler on the subscriber list:
\* const i = clients.findIndex(..); if (i !== -1) clients.splice(i, 1).
unsubscribe(cs, id) ==
  LET i == findIndex(cs, id)
  IN IF i # 0 THEN SubSeq(cs, 1, i - 1) \o SubSeq(cs, i + 1, Len(cs)) ELSE cs

\* A close handler that also aborts the handlers suspended at an external call.
CloseCancels(id) ==
  /\ \E i \in 1..Len(clients) : clients[i] = id
  /\ clients' = unsubscribe(clients, id)
  /\ broken' = broken \ {id}
  /\ subs' = [s \in DOMAIN subs |->
                IF subs[s].pc \in {"fetchText", "reading", "fetchViz"}
                THEN [subs[s] EXCEPT !.pc = "cancelled"] ELSE subs[s]]
  /\ UNCHANGED <<questions, answers, log, uuid>>

\* The close handler splicing the head of the list, whichever channel closed.
CloseRemovesHead(id) ==
  /\ \E i \in 1..Len(clients) : clients[i] = id
  /\ clients' = Tail(clients)
  /\ broken' = broken \ {id}
  /\ UNCHANGED <<questions, answers, log, subs, uuid>>

\* req.on('close'): findIndex by id, splice when found.
Close(id) ==
  /\ \E i \in 1..Len(clients) : clients[i] = id
  /\ clients' = unsubscribe(clients, id)
  /\ broken' = broken \ {id}
  /\ UNCHANGED <<questions, answers, log, subs, uuid>>

\* The transport of a registered channel fails: from now on res.write throws.
WriteFails(id) ==
  /\ \E i \in 1..Len(clients) : clients[i] = id
  /\ id \notin broken
  /\ broken' = broken \cup {id}
  /\ UNCHANGED <<questions, answers, clients, log, subs, uuid>>

\* The steps of the submissions S, with inputs from B, C and R.
CoordNext(S, B, C, R) ==
  \/ \E s \in S, body \in B : Submit(s, body) /\ UNCHANGED player
  \/ \E s \in S : TextFetchOk(s) /\ UNCHANGED player
  \/ \E s \in S : TextFetchError(s) /\ UNCHANGED player
  \/ \E s \in S, chunk \in C : ReadChunk(s, chunk) /\ UNCHANGED player
  \/ \E s \in S : ReadDone(s) /\ UNCHANGED player
  \/ \E s \in S : ReadError(s) /\ UNCHANGED player
  \/ \E s \in S, reply \in R : VizFetchOk(s, reply) /\ UNCHANGED player
  \/ \E s \in S : VizFetchError(s) /\ UNCHANGED player

\* The viewers: at most n connections, each may fail and close.
HubNext(n) ==
  \/ Connect(n) /\ UNCHANGED player
  \/ \E id \in 1..uuid : Close(id) /\ UNCHANGED player
  \/ \E id \in 1..uuid : WriteFails(id) /\ UNCHANGED player

\* One submission, the first to arrive, against MaxConns viewers.
First == {s \in Subs : s <= 1}

Next == CoordNext(First, Bodies, Chunks, VizReplies) \/ HubNext(MaxConns)

Spec == Init /\ [][Next]_vars

\* One submission of a well-formed body against HubConns viewers.
LiveBodies == {b \in Bodies : b.userId = Str(<<"u">>) /\ b.question = Str(<<" ", "q">>)}
LiveChunks == { <<SEP, "data:b", SEP>> }
LiveReplies == { VizReply("object", TRUE, Num(9000), TRUE, <<"layer">>) }

HubSpecNext == CoordNext(First, LiveBodies, LiveChunks, LiveReplies) \/ HubNext(HubConns)

HubSpec == Init /\ [][HubSpecNext]_vars

\* MaxSubs submissions in flight together, watched by RaceConns viewers whose
\* channels stay open.
RaceBodies == {b \in Bodies : b.userId = Str(<<"u">>) /\ b.question \in {Undef, Str(<<" ", "q">>)}}
RaceChunks == { <<"data:a", SEP>>, <<"data:b", SEP>> }
RaceReplies == { VizReply("fail", FALSE, Undef, FALSE, <<>>) }

RaceNext ==
  \/ CoordNext(Subs, RaceBodies, RaceChunks, RaceReplies)
  \/ Connect(RaceConns) /\ UNCHANGED player

RaceSpec == Init /\ [][RaceNext]_vars

\* ================================================================ viewer
\* The result of !selectedAnswer?.visualization, negated.
HasScene(a) == a # NoAnswer /\ a.visualization # NoScene

\* cancelAnimationFrame(handle) on the callbacks held.
cancelAnimationFrame(q, handle) == {cb \in q : cb.handle # handle}

\* The effect without its cleanup and without the cancel of its first branch.
effectWithoutCancel(prevSel, prevPlaying, sel, playing, aref, q, h, t) ==
  IF ~HasScene(sel) \/ ~playing
  THEN [animationRef |-> 0, raf |-> q, handles |-> h]
  ELSE [animationRef |-> h + 1,
        raf |-> q \cup {[handle |-> h + 1, answer |-> sel, since |-> t]},
        handles |-> h + 1]

\* The animation-loop effect (lines 463-484) run because selectedAnswer or
\* isPlaying changed: first the cleanup the previous run returned (line 483,
\* returned only by a run that scheduled), then the body with the new state.
effect(prevSel, prevPlaying, sel, playing, aref, q, h, t) ==
  LET q1 == IF HasScene(prevSel) /\ prevPlaying /\ aref # 0
            THEN cancelAnimationFrame(q, aref) ELSE q
  IN IF ~HasScene(sel) \/ ~playing
     THEN [animationRef |-> 0,
           raf |-> IF aref # 0 THEN cancelAnimationFrame(q1, aref) ELSE q1,
           handles |-> h]
     ELSE [animationRef |-> h + 1,
           raf |-> q1 \cup {[handle |-> h + 1, answer |-> sel, since |-> t]},
           handles |-> h + 1]

\* React renders with the state q and runs the effect when one of its
\* dependencies differs from the last render.
Commit(q) ==
  LET e == effect(selectedAnswer, isPlaying, q.selectedAnswer, q.isPlaying,
                  animationRef, raf, handles, now)
  IN /\ selectedAnswer' = q.selectedAnswer
     /\ isPlaying' = q.isPlaying
     /\ queued' = q
     /\ IF q.selectedAnswer # selectedAnswer \/ q.isPlaying # isPlaying
        THEN /\ animationRef' = e.animationRef
             /\ raf' = e.raf
             /\ handles' = e.handles
        ELSE UNCHANGED <<animationRef, raf, handles>>

\* The viewer still receives input: clicks and events of the stream.
InputOpen == now <= LastInput * FrameMs /\ handles < MaxHandles

\* es.addEventListener('answer_created'): setSelectedAnswer(a); setIsPlaying(true).
\* The updates are queued; React renders later.
AnswerCreated(a) ==
  /\ InputOpen
  /\ \A r \in received : r.id # a.id
  /\ received' = received \cup {a}
  /\ queued' = [selectedAnswer |-> a, isPlaying |-> TRUE]
  /\ UNCHANGED <<selectedAnswer, isPlaying, animationRef, startTimeRef, raf, handles,
                 now, pausedMs, canvas>>

\* React renders the queued state.
Render ==
  /\ queued # [selectedAnswer |-> selectedAnswer, isPlaying |-> isPlaying]
  /\ Commit(queued)
  /\ UNCHANGED <<startTimeRef, now, pausedMs, received, canvas>>

\* handleAnswerClick(a) on a shown Answer; a click is rendered at once.
AnswerClick(a) ==
  /\ InputOpen
  /\ a \in received
  /\ startTimeRef' = 0
  /\ Commit([selectedAnswer |-> a, isPlaying |-> FALSE])
  /\ UNCHANGED <<now, pausedMs, received, canvas>>

\* handlePlay: the button is enabled with an Answer selected and shows play
\* while isPlaying is false.
Play ==
  /\ InputOpen
  /\ selectedAnswer # NoAnswer
  /\ ~isPlaying
  /\ Commit([queued EXCEPT !.isPlaying = TRUE])
  /\ UNCHANGED <<startTimeRef, now, pausedMs, received, canvas>>

\* handlePause.
Pause ==
  /\ InputOpen
  /\ selectedAnswer # NoAnswer
  /\ isPlaying
  /\ Commit([queued EXCEPT !.isPlaying = FALSE])
  /\ UNCHANGED <<startTimeRef, now, pausedMs, received, canvas>>

\* handleReset: setIsPlaying(false); startTimeRef.current = null; clearRect.
Reset ==
  /\ InputOpen
  /\ selectedAnswer # NoAnswer
  /\ startTimeRef' = 0
  /\ canvas' = [NoDraw EXCEPT !.op = "clear", !.ts = now]
  /\ Commit([queued EXCEPT !.isPlaying = FALSE])
  /\ UNCHANGED <<now, pausedMs, received>>

\* ---------------------------------------------------------------- numbers
\* A JavaScript number as the evaluator computes with it: a fraction n/d in
\* lowest terms with d > 0, NaN, or undefined (a property never set).
RECURSIVE Gcd(_, _)
Gcd(a, b) == IF b = 0 THEN a ELSE Gcd(b, a % b)
Abs(k) == IF k < 0 THEN 0 - k ELSE k
Real(n, d) ==
  LET g == Gcd(Abs(n), Abs(d))
  IN IF d < 0 THEN [t |-> "num", n |-> (0 - n) \div g, d |-> (0 - d) \div g]
     ELSE [t |-> "num", n |-> n \div g, d |-> d \div g]
NaN == [t |-> "nan", n |-> 0, d |-> 1]
Undefined == [t |-> "undef", n |-> 0, d |-> 1]

\* a + b, a - b, a * b; NaN when an operand is NaN or undefined.
add(a, b) == IF a.t # "num" \/ b.t # "num" THEN NaN ELSE Real(a.n * b.d + b.n * a.d, a.d * b.d)
sub(a, b) == IF a.t # "num" \/ b.t # "num" THEN NaN ELSE Real(a.n * b.d - b.n * a.d, a.d * b.d)
mul(a, b) == IF a.t # "num" \/ b.t # "num" THEN NaN ELSE Real(a.n * b.n, a.d * b.d)
\* a / b for a finite quotient, and 0 / 0, which is NaN.
div(a, b) ==
  IF a.t # "num" \/ b.t # "num" \/ b.n = 0 THEN NaN ELSE Real(a.n * b.d, a.d * b.n)
\* a <= b and a < b; false when an operand is NaN or undefined.
le(a, b) == a.t = "num" /\ b.t = "num" /\ a.n * b.d <= b.n * a.d
lt(a, b) == a.t = "num" /\ b.t = "num" /\ a.n * b.d < b.n * a.d

\* The number a JSON field holds: an integer, or undefined when absent.
Number(v) == IF v.t = "num" THEN Real(v.n, 1) ELSE IF v.t = "undef" THEN Undefined ELSE NaN
\* v || k and v ?? k on a JSON field.
OrElse(v, k) == IF Truthy(v) THEN Number(v) ELSE k
Nullish(v, k) == IF v.t = "undef" THEN k ELSE Number(v)

\* ---------------------------------------------------------------- evaluator
PropNames == {"x", "y"}

\* An animation of a layer and a layer with its base props.
Anim(property, start, end, from, to, easing) ==
  [property |-> property, start |-> start, end |-> end, from |-> from, to |-> to,
   easing |-> easing]
Layer(props, animations) == [props |-> props, animations |-> animations]

\* applyEasing(t, easing), lines 341-348.
applyEasing(t, easing) ==
  CASE easing = "ease-in" -> mul(t, t)
    [] easing = "ease-out" -> sub(Real(1, 1), mul(sub(Real(1, 1), t), sub(Real(1, 1), t)))
    [] easing = "ease-in-out" ->
         IF lt(t, Real(1, 2)) THEN mul(Real(2, 1), mul(t, t))
         ELSE LET u == add(mul(Real(0 - 2, 1), t), Real(2, 1))
              IN sub(Real(1, 1), div(mul(u, u), Real(2, 1)))
    [] OTHER -> t

\* cos and sin of 2 * PI * eased, kept as terms: centre + radius * cos(..).
OrbitX(eased) == IF eased.t # "num" THEN NaN ELSE [t |-> "cos", n |-> eased.n, d |-> eased.d]
OrbitY(eased) == IF eased.t # "num" THEN NaN ELSE [t |-> "sin", n |-> eased.n, d |-> eased.d]

\* The body of layer.animations.forEach with the value past the end left as it was.
animateWithoutFreeze(props, anim, currentTime, duration) ==
  LET s == OrElse(anim.start, Real(0, 1))
      e == OrElse(anim.end, Number(duration))
  IN IF le(s, currentTime) /\ le(currentTime, e)
     THEN LET eased == applyEasing(div(sub(currentTime, s), sub(e, s)), anim.easing)
              from == Nullish(anim.from, Real(0, 1))
              to == Nullish(anim.to, Real(0, 1))
          IN IF anim.property = "orbit"
             THEN [props EXCEPT !["x"] = OrbitX(eased), !["y"] = OrbitY(eased)]
             ELSE [props EXCEPT ![anim.property] = add(from, mul(sub(to, from), eased))]
     ELSE props

\* The body of layer.animations.forEach with an orbit held at its final
\* position past the end.
animateOrbitHeld(props, anim, currentTime, duration) ==
  LET s == OrElse(anim.start, Real(0, 1))
      e == OrElse(anim.end, Number(duration))
  IN IF le(s, currentTime) /\ le(currentTime, e)
     THEN LET eased == applyEasing(div(sub(currentTime, s), sub(e, s)), anim.easing)
              from == Nullish(anim.from, Real(0, 1))
              to == Nullish(anim.to, Real(0, 1))
          IN IF anim.property = "orbit"
             THEN [props EXCEPT !["x"] = OrbitX(eased), !["y"] = OrbitY(eased)]
             ELSE [props EXCEPT ![anim.property] = add(from, mul(sub(to, from), eased))]
     ELSE IF lt(e, currentTime)
     THEN IF anim.property = "orbit"
          THEN [props EXCEPT !["x"] = OrbitX(Real(1, 1)), !["y"] = OrbitY(Real(1, 1))]
          ELSE [props EXCEPT ![anim.property] = Number(anim.to)]
     ELSE props

\* The body of layer.animations.forEach (lines 374-388) on the props of
\* the layer: the props after this animation.
applyAnimation(props, anim, currentTime, duration) ==
  LET s == OrElse(anim.start, Real(0, 1))
      e == OrElse(anim.end, Number(duration))
  IN IF le(s, currentTime) /\ le(currentTime, e)
     THEN LET eased == applyEasing(div(sub(currentTime, s), sub(e, s)), anim.easing)
              from == Nullish(anim.from, Real(0, 1))
              to == Nullish(anim.to, Real(0, 1))
          IN IF anim.property = "orbit"
             THEN [props EXCEPT !["x"] = OrbitX(eased), !["y"] = OrbitY(eased)]
             ELSE [props EXCEPT ![anim.property] = add(from, mul(sub(to, from), eased))]
     ELSE IF lt(e, currentTime) /\ anim.property # "orbit"
     THEN [props EXCEPT ![anim.property] = Number(anim.to)]
     ELSE props

\* forEach taking the animations last to first.
RECURSIVE forEachAnimReversed(_, _, _, _)
forEachAnimReversed(props, animations, currentTime, duration) ==
  IF animations = <<>> THEN props
  ELSE forEachAnimReversed(applyAnimation(props, animations[Len(animations)], currentTime, duration),
                           SubSeq(animations, 1, Len(animations) - 1), currentTime, duration)

\* layer.animations.forEach(anim => ...): the animations in declared order.
RECURSIVE forEachAnim(_, _, _, _)
forEachAnim(props, animations, currentTime, duration) ==
  IF animations = <<>> THEN props
  ELSE forEachAnim(applyAnimation(props, Head(animations), currentTime, duration),
                   Tail(animations), currentTime, duration)

\* drawVisualization(ctx, visualization, progress) from line 367 on: the
\* props each layer is drawn with, in layer order.
drawVisualization(visualization, progress) ==
  LET currentTime == mul(progress, Number(visualization.duration))
  IN [i \in 1..Len(visualization.layers) |->
        forEachAnim(visualization.layers[i].props, visualization.layers[i].animations,
                    currentTime, visualization.duration)]

\* selectedAnswer.visualization.duration || 6000
Duration(scene) ==
  IF Truthy(scene.duration) THEN scene.duration ELSE Num(PlayerDefaultDuration)

\* Math.min(elapsed / duration, 1) as a fraction num/den with den > 0; NaN
\* when the duration is not a number.
Progress(elapsed, d) ==
  IF d.t # "num" THEN [nan |-> TRUE, num |-> 0, den |-> 1]
  ELSE IF d.n < 0 THEN [nan |-> FALSE, num |-> 0 - elapsed, den |-> 0 - d.n]
  ELSE IF elapsed >= d.n THEN [nan |-> FALSE, num |-> 1, den |-> 1]
  ELSE [nan |-> FALSE, num |-> elapsed, den |-> d.n]

\* progress < 1
BelowOne(p) == ~p.nan /\ p.num < p.den

\* animate(ts) of the callback cb at the next frame after it was requested
\* (lines 469-481); the closure holds the Answer of its render and isPlaying true.
Tick(cb) ==
  /\ cb \in raf
  /\ now > cb.since
  /\ LET start == IF startTimeRef = 0 THEN now ELSE startTimeRef
         elapsed == now - start
         progress == Progress(elapsed, Duration(cb.answer.visualization))
     IN /\ startTimeRef' = start
        /\ canvas' = IF selectedAnswer # NoAnswer      \* canvasRef.current
                     THEN [op |-> "draw", answer |-> cb.answer.id, progress |-> progress,
                           elapsed |-> elapsed, ts |-> now, handle |-> cb.handle,
                           frame |-> drawVisualization(
                                       cb.answer.visualization,
                                       IF progress.nan THEN NaN
                                       ELSE Real(progress.num, progress.den))]
                     ELSE canvas
        /\ IF BelowOne(progress)
           THEN /\ animationRef' = handles + 1
                /\ handles' = handles + 1
                /\ raf' = (raf \ {cb}) \cup
                           {[handle |-> handles + 1, answer |-> cb.answer, since |-> now]}
                /\ UNCHANGED queued
           ELSE /\ queued' = [queued EXCEPT !.isPlaying = FALSE]
                /\ animationRef' = 0
                /\ raf' = raf \ {cb}
                /\ UNCHANGED handles
  /\ pausedMs' = 0
  /\ UNCHANGED <<selectedAnswer, isPlaying, now, received>>

\* The clock stops where every playback started by the last input has ended.
EndOfTime == (LastInput + 2) * FrameMs + 1000 * (MaxAnswers + 1)

\* A display frame passes: React has rendered the queued updates and the
\* callbacks requested in earlier frames have run.
Advance ==
  /\ now < EndOfTime
  /\ queued = [selectedAnswer |-> selectedAnswer, isPlaying |-> isPlaying]
  /\ \A cb \in raf : cb.since = now
  /\ now' = now + FrameMs
  /\ pausedMs' = IF isPlaying THEN pausedMs ELSE pausedMs + FrameMs
  /\ UNCHANGED <<selectedAnswer, isPlaying, queued, animationRef, startTimeRef, raf,
                 handles, received, canvas>>

\* The viewer receiving Answers from A.
PlayerNext(A) ==
  \/ \E a \in A : AnswerCreated(a) /\ UNCHANGED vars
  \/ Render /\ UNCHANGED vars
  \/ \E a \in received : AnswerClick(a) /\ UNCHANGED vars
  \/ Play /\ UNCHANGED vars
  \/ Pause /\ UNCHANGED vars
  \/ Reset /\ UNCHANGED vars
  \/ \E cb \in raf : Tick(cb) /\ UNCHANGED vars
  \/ Advance /\ UNCHANGED vars

PlayNext == PlayerNext(PlayAnswers)

PlaySpec == Init /\ [][PlayNext]_player

\* Answers whose duration line 170 of the server lets through: a negative
\* number and a string that is not a number, next to a duration of 2000.
OddAnswers ==
  { Answer(1, Num(2000)),
    Answer(2, Num(0 - 2000)),
    Answer(3, Str(<<"l", "o", "n", "g">>)) }

\* A viewer in a browser that runs every requested callback, renders every
\* queued update and whose clock goes on.
Fairness ==
  /\ WF_player(\E cb \in raf : Tick(cb) /\ UNCHANGED vars)
  /\ WF_player(Render /\ UNCHANGED vars)
  /\ WF_player(Advance /\ UNCHANGED vars)

\* The viewer fed with the Answers of OddAnswers.
OddPlayNext == PlayerNext(OddAnswers)

OddPlaySpec == Init /\ [][OddPlayNext]_player /\ Fairness

\* The viewer fed with Answers of positive duration.
FairPlaySpec == Init /\ [][PlayNext]_player /\ Fairness

\* ---------------------------------------------------------------- evaluator inputs
BaseProps == [x |-> Real(7, 1), y |-> Undefined]

\* The animation of the worked example: x from 0 to 100 over [1000, 3000].
ExampleAnim == Anim("x", Num(1000), Num(3000), Num(0), Num(100), "linear")

\* Animations of x with fields present or absent, linear or eased.
EvalAnims ==
  {Anim("x", start, end, from, to, easing) :
     start \in {Undef, Num(1000)}, end \in {Undef, Num(3000)},
     from \in {Undef, Num(0), Num(40)}, to \in {Undef, Num(100)},
     easing \in {"linear", "ease-in"}}

\* Animations declared together on one layer: windows that overlap, two
\* properties, an orbit.
PairAnims ==
  { ExampleAnim,
    Anim("x", Num(2000), Num(4000), Num(50), Num(10), "linear"),
    Anim("x", Num(2000), Undef, Num(20), Num(60), "ease-out"),
    Anim("y", Num(1000), Num(3000), Num(0), Num(100), "ease-in-out"),
    Anim("orbit", Num(1000), Num(3000), Undef, Undef, "linear") }

\* An animation whose window is the single instant 2000 ms.
InstantAnim == Anim("x", Num(2000), Num(2000), Num(0), Num(100), "linear")

EvalAnimations ==
  {<<a>> : a \in EvalAnims} \cup {<<a, b>> : a \in PairAnims, b \in PairAnims}
    \cup {<<InstantAnim>>}

\* One layer with the given animations in a visualization of 5000 ms.
EvalAnswer(animations) ==
  [id |-> 1,
   visualization |-> [duration |-> Num(5000), layers |-> <<Layer(BaseProps, animations)>>]]

EvalAnswers == {EvalAnswer(animations) : animations \in EvalAnimations}

EvalProgress == {Real(k, 5) : k \in 0..5} \cup {Real(k, EvalSteps) : k \in 0..EvalSteps}

\* drawVisualization is called with a visualization and a progress, in any
\* order of progress values (line 477).
Draw(a, p) ==
  /\ selectedAnswer' = a
  /\ canvas' = [op |-> "draw", answer |-> a.id,
                progress |-> [nan |-> FALSE, num |-> p.n, den |-> p.d],
                elapsed |-> 0, ts |-> 0, handle |-> 0,
                frame |-> drawVisualization(a.visualization, p)]
  /\ UNCHANGED <<isPlaying, queued, animationRef, startTimeRef, raf, handles, now,
                 pausedMs, received>>

EvalNext == \E a \in EvalAnswers, p \in EvalProgress : Draw(a, p) /\ UNCHANGED vars

EvalSpec == Init /\ [][EvalNext]_player

\* ================================================================ properties
Range(seq) == {seq[i] : i \in 1..Len(seq)}
Last(seq) == seq[Len(seq)]

\* The events submission s has broadcast, in the order it made them.
EventsBy(s) == SelectSeq(log, LAMBDA e : e.by = s)
EventsOf(s, event) == SelectSeq(log, LAMBDA e : e.by = s /\ e.event = event)

\* A field of the request body that is absent or empty.
Missing(v) == v = Undef \/ v = Str(<<>>)

\* userId and question both present, and the request has arrived.
Accepted(s) ==
  /\ subs[s].pc # "idle"
  /\ ~Missing(subs[s].body.userId)
  /\ ~Missing(subs[s].body.question)

Finished(s) == subs[s].pc \in {"completed", "fallback"}

IsPrefix(a, b) == Len(a) <= Len(b) /\ SubSeq(b, 1, Len(a)) = a
Contains(text, part) ==
  \E i \in 0..(Len(text) - Len(part)) : SubSeq(text, i + 1, i + Len(part)) = part

\* GET /api/answers/:id : the answers find() can return for an id.
AnswersWithId(id) == {j \in 1..Len(answers) : answers[j].id = id}

\* C1: the events of every accepted submission come in the order
\* question_created, generation_started, answer_partial*, answer_created,
\* so that no answer_created of a submission precedes its question_created
\* and its generation_started.
C1_EventOrder ==
  \A s \in Subs :
    Accepted(s) =>
      LET ev == EventsBy(s)
      IN /\ Len(ev) >= 2
         /\ ev[1].event = "question_created"
         /\ ev[2].event = "generation_started"
         /\ \A i \in 3..Len(ev) :
              \/ ev[i].event = "answer_partial"
              \/ i = Len(ev) /\ ev[i].event = "answer_created"

\* The order of C1 restricted to requests whose question is a string: what
\* the handler keeps once question.trim() has returned.
EventOrderOfStringQuestions ==
  \A s \in Subs :
    Accepted(s) /\ subs[s].body.question.t = "str" =>
      LET ev == EventsBy(s)
      IN /\ Len(ev) >= 2
         /\ ev[1].event = "question_created"
         /\ ev[2].event = "generation_started"
         /\ \A i \in 3..Len(ev) :
              \/ ev[i].event = "answer_partial"
              \/ i = Len(ev) /\ ev[i].event = "answer_created"
         /\ Finished(s) <=> Last(ev).event = "answer_created"

\* C2: once the generation of a Question's submission has completed or
\* fallen back, Store holds exactly one Answer whose id is the answerId of
\* the Question record.
C2_AnswerUnderQuestionAnswerId ==
  \A i \in 1..Len(questions) :
    \A s \in Subs :
      subs[s].questionId = questions[i].id /\ Finished(s) =>
        Cardinality(AnswersWithId(questions[i].answerId)) = 1

\* An external generation call of submission s errors in this step.
ExternalError(s) ==
  \/ TextFetchError(s)
  \/ ReadError(s)
  \/ VizFetchError(s)
  \/ \E reply \in VizReplies : groqVizJSON(reply).threw /\ VizFetchOk(s, reply)

\* C3: when an external generation call of an accepted submission errors,
\* the handler in that step appends one fallback Answer to Store (its text
\* contains the question as sent, its visualization has no layers and
\* duration 7000), broadcasts answer_created carrying that Answer, and
\* answers the request with status 200 and success:true.
C3_FallbackOnError ==
  [][\A s \in Subs :
       ExternalError(s) =>
         /\ Len(answers') = Len(answers) + 1
         /\ SubSeq(answers', 1, Len(answers)) = answers
         /\ Contains(Last(answers').text, subs[s].body.question.s)
         /\ Last(answers').visualization.layers = <<>>
         /\ Last(answers').visualization.duration = Num(7000)
         /\ Len(log') = Len(log) + 1
         /\ Last(log').event = "answer_created"
         /\ Last(log').by = s
         /\ Last(log').data = Last(answers')
         /\ ~Last(log').raised
         /\ subs'[s].response.status = 200
         /\ subs'[s].response.success
         /\ subs'[s].pc = "fallback"]_vars

\* C3 witness: a submission fell back after tokens had been streamed.
C3_Witness ==
  \E s \in Subs :
    /\ subs[s].pc = "fallback"
    /\ subs[s].text # <<>>
    /\ subs[s].response.success
    /\ \E j \in 1..Len(answers) : answers[j].visualization.duration = Num(7000)

\* C4: every accepted submission broadcasts at most one answer_created and
\* inserts at most one Answer, and exactly one of each once it has finished,
\* on the success path and on the fallback path.
C4_ExactlyOneAnswer ==
  /\ \A s \in Subs :
       Accepted(s) =>
         /\ Len(EventsOf(s, "answer_created")) = (IF Finished(s) THEN 1 ELSE 0)
         /\ subs[s].pc # "rejected"
  /\ Len(answers) = Cardinality({s \in Subs : Accepted(s) /\ Finished(s)})
  /\ \A j \in 1..Len(answers) :
       Cardinality({i \in 1..Len(log) :
                      log[i].event = "answer_created" /\ log[i].data = answers[j]}) = 1

\* C4 witness: one submission finished on the fallback path after tokens.
C4_Witness ==
  \E s \in Subs :
    /\ subs[s].pc = "fallback"
    /\ Len(EventsOf(s, "answer_partial")) >= 1
    /\ Len(answers) = 1

\* C5: where a submission broadcast an answer_partial, the text of its
\* answer_created is the textPartial of its last answer_partial.
C5_FinalTextIsLastPartial ==
  \A s \in Subs :
    LET partials == EventsOf(s, "answer_partial")
        created == EventsOf(s, "answer_created")
    IN partials # <<>> /\ created # <<>> =>
         Last(created).data.text = Last(partials).data.textPartial

\* C5 amended: the same, for the submissions whose two external calls
\* both returned (the handler reached line 205); after a fallback the text
\* of answer_created is the fallback text, which differs from every partial.
C5_FinalTextIsLastPartialOnSuccess ==
  \A s \in Subs :
    LET partials == EventsOf(s, "answer_partial")
        created == EventsOf(s, "answer_created")
    IN /\ subs[s].pc = "completed" /\ partials # <<>> =>
            /\ Len(created) = 1
            /\ created[1].data.text = Last(partials).data.textPartial
       /\ subs[s].pc = "fallback" /\ partials # <<>> =>
            /\ Len(created) = 1
            /\ created[1].data.text = fallbackAnswer(subs[s].body, 0).text
            /\ created[1].data.text # Last(partials).data.textPartial

\* C5 witness: a submission completed after two answer_partial events.
C5_Witness ==
  \E s \in Subs :
    /\ subs[s].pc = "completed"
    /\ Len(EventsOf(s, "answer_partial")) >= 2

\* The entries this step appends to the log.
NewEntries == {i \in 1..Len(log') : i > Len(log)}

\* C6: a broadcast over a subscriber list holding channels whose write
\* throws reaches every other registered channel, attempts each throwing
\* one once, and no exception leaves broadcast.
C6_BroadcastIsolatesFailure ==
  [][\A i \in NewEntries :
       log'[i].event \in BroadcastEvents =>
         /\ ~log'[i].raised
         /\ log'[i].to = Range(clients) \ broken
         /\ log'[i].failed = Range(clients) \cap broken]_vars

\* C6 witness: one event failed on one channel, reached another, and the
\* coordinator that broadcast it went on to finish.
C6_Witness ==
  \E i \in 1..Len(log) :
    /\ log[i].event = "question_created"
    /\ log[i].failed # {}
    /\ log[i].to # {}
    /\ Finished(log[i].by)

\* C7: a channel whose write failed during a broadcast is not registered
\* once that broadcast has returned.
C7_FailedChannelRemoved ==
  \A i \in 1..Len(log) : log[i].failed \cap Range(clients) = {}

\* C8: a submission without userId or without question is answered with
\* status 400 and changes neither Store nor the log nor the uuid counter, and
\* its handler has ended without a generation call.
C8_RejectLeavesStateUnchanged ==
  [][\A s \in Subs :
       (/\ subs[s].pc = "idle"
        /\ subs'[s].pc # "idle"
        /\ (Missing(subs'[s].body.userId) \/ Missing(subs'[s].body.question))) =>
         /\ subs'[s].response.status = 400
         /\ ~subs'[s].response.success
         /\ subs'[s].pc = "rejected"
         /\ UNCHANGED <<questions, answers, clients, broken, log, uuid>>]_vars

\* C8 witness: a request with userId and an empty question was rejected
\* while a viewer was connected.
C8_Witness ==
  \E s \in Subs :
    /\ subs[s].pc = "rejected"
    /\ subs[s].response.status = 400
    /\ Truthy(subs[s].body.userId)
    /\ subs[s].body.question = Str(<<>>)
    /\ clients # <<>>

\* C9: the textPartial of each answer_partial of a submission extends the
\* textPartial of its previous one, the first is not empty and the last is
\* the whole text accumulated so far, whatever other submissions broadcast
\* in between.
C9_PartialsAccumulate ==
  \A s \in Subs :
    LET p == EventsOf(s, "answer_partial")
    IN /\ \A i \in 1..(Len(p) - 1) :
            /\ IsPrefix(p[i].data.textPartial, p[i + 1].data.textPartial)
            /\ Len(p[i].data.textPartial) <= Len(p[i + 1].data.textPartial)
       /\ p # <<>> => /\ Last(p).data.textPartial = subs[s].text
                      /\ p[1].data.textPartial # <<>>

\* C9 witness: between two answer_partial events of one submission lies an
\* answer_partial of another.
C9_Witness ==
  \E i, j, k \in 1..Len(log) :
    /\ i < j /\ j < k
    /\ log[i].event = "answer_partial"
    /\ log[j].event = "answer_partial"
    /\ log[k].event = "answer_partial"
    /\ log[i].by = log[k].by
    /\ log[j].by # log[i].by
    /\ Len(log[k].data.textPartial) = 2

\* An await of submission s settles: the external call returns, yields a
\* chunk from C or a reply from R, or errors.
Settle(s, C, R) ==
  \/ TextFetchOk(s) /\ UNCHANGED player
  \/ TextFetchError(s) /\ UNCHANGED player
  \/ \E chunk \in C : ReadChunk(s, chunk) /\ UNCHANGED player
  \/ ReadDone(s) /\ UNCHANGED player
  \/ ReadError(s) /\ UNCHANGED player
  \/ \E reply \in R : VizFetchOk(s, reply) /\ UNCHANGED player
  \/ VizFetchError(s) /\ UNCHANGED player

\* One submission of a well-formed body against LiveConns viewers, where
\* every pending external call eventually settles.
LiveNext == CoordNext(First, LiveBodies, LiveChunks, LiveReplies) \/ HubNext(LiveConns)

FairSpec ==
  Init /\ [][LiveNext]_vars /\ \A s \in First : WF_vars(Settle(s, LiveChunks, LiveReplies))

InFlight(s) == subs[s].pc \in {"fetchText", "reading", "fetchViz"}

\* C10: a submission suspended at an external call eventually has its
\* Answer in Store and its response sent, whichever viewers close their
\* connection meanwhile.
C10_GenerationSurvivesDisconnect ==
  \A s \in First :
    InFlight(s) ~>
      (/\ Finished(s)
       /\ subs[s].response.status = 200
       /\ \E j \in 1..Len(answers) : answers[j].id = subs[s].response.answerId)

\* C10 witness: the first event of a finished submission reached a viewer
\* whose channel did not fail, and its answer_created found no subscriber.
C10_Witness ==
  \E s \in Subs :
    /\ Finished(s)
    /\ EventsBy(s) # <<>>
    /\ EventsBy(s)[1].to # {}
    /\ Last(EventsBy(s)).event = "answer_created"
    /\ Last(EventsBy(s)).to = {}
    /\ Last(EventsBy(s)).failed = {}
    /\ clients = <<>>
    /\ \E j \in 1..Len(answers) : answers[j].id = subs[s].response.answerId

\* The connections that were opened and whose close handler has run.
Connected == {log[i].data.clientId : i \in {k \in 1..Len(log) : log[k].event = "connected"}}
Closed == Connected \ Range(clients)

\* C11: the close handler of channel id takes id, and only id, out of the
\* subscriber list and running it again changes nothing; a channel whose
\* close handler has run is never registered again and no event written
\* afterwards is sent to it.
C11_UnsubscribeRemovesOnlyThatChannel ==
  [][/\ \A id \in 1..uuid :
          Close(id) =>
            /\ id \notin Range(clients')
            /\ clients' = SelectSeq(clients, LAMBDA c : c # id)
            /\ unsubscribe(clients', id) = clients'
     /\ \A id \in Closed :
          /\ id \notin Range(clients')
          /\ \A i \in NewEntries : id \notin (log'[i].to \cup log'[i].failed)]_vars

\* C11 witness: a channel that had received a broadcast event closed while
\* another stayed registered, and a later broadcast reached the one that stayed.
C11_Witness ==
  \E a \in Closed, i, j \in 1..Len(log) :
    /\ i < j
    /\ log[i].event \in BroadcastEvents
    /\ a \in log[i].to
    /\ log[j].event \in BroadcastEvents
    /\ a \notin log[j].to
    /\ log[j].to # {}
    /\ log[j].to \subseteq Range(clients)
    /\ Last(log).event = "answer_created"

\* The log entries that wrote to channel id, in order.
EntriesOn(id) == SelectSeq(log, LAMBDA e : id \in (e.to \cup e.failed))

\* C12: the registered ids are pairwise distinct, every connection got an
\* id no other connection got, and the first event written to a channel is
\* its connected event carrying its id: no question_created,
\* generation_started, answer_partial or answer_created is written to it
\* earlier, also when a submission broadcasts before and after.
C12_ConnectedIsFirstEvent ==
  /\ \A i, j \in 1..Len(clients) : clients[i] = clients[j] => i = j
  /\ \A i, j \in 1..Len(log) :
       (/\ log[i].event = "connected"
        /\ log[j].event = "connected"
        /\ log[i].data.clientId = log[j].data.clientId) => i = j
  /\ \A id \in 1..uuid :
       (id \in Range(clients) \/ EntriesOn(id) # <<>>) =>
         /\ EntriesOn(id) # <<>>
         /\ EntriesOn(id)[1].event = "connected"
         /\ EntriesOn(id)[1].data.clientId = id
         /\ EntriesOn(id)[1].to = {id}
         /\ \A k \in 2..Len(EntriesOn(id)) : EntriesOn(id)[k].event \in BroadcastEvents

\* C12 witness: a channel connected between two broadcasts of one
\* submission; the earlier one was not written to it, the later one was.
C12_Witness ==
  \E i, j, k \in 1..Len(log) :
    /\ i < j /\ j < k
    /\ log[i].event \in BroadcastEvents
    /\ log[j].event = "connected"
    /\ log[k].event \in BroadcastEvents
    /\ log[i].by = log[k].by
    /\ log[j].data.clientId \notin log[i].to
    /\ log[j].data.clientId \in log[k].to
    /\ Len(clients) = 2

\* C13: the elapsed time a tick computes counts only time spent playing: a
\* tick that continues a playback (the start time is kept) after a draw of
\* the same Answer below progress 1 advances the elapsed time by no more
\* than the time that passed with isPlaying true since that draw, plus one
\* frame interval, however long isPlaying was false in between.
C13_PauseResumeDoesNotSkip ==
  [][(/\ canvas'.op = "draw"
      /\ canvas' # canvas
      /\ canvas.op = "draw"
      /\ canvas.answer = canvas'.answer
      /\ BelowOne(canvas.progress)
      /\ startTimeRef # 0) =>
       canvas'.elapsed <= canvas.elapsed + ((now - canvas.ts) - pausedMs) + FrameMs]_player

\* C14: requestAnimationFrame holds at most one callback of the animation
\* loop, and the one it holds is the one animationRef names, closed over the
\* Answer of the last render, with isPlaying true: after play, pause, reset,
\* a click on an Answer or answer_created no callback requested before is
\* left to run and draw.
C14_OneTickPending ==
  /\ Cardinality(raf) <= 1
  /\ \A cb \in raf :
       /\ cb.handle = animationRef
       /\ cb.answer = selectedAnswer
       /\ isPlaying

\* C14 witness: while one Answer was playing, another one arrived and was
\* rendered: the callback held belongs to the new Answer, the last draw to the old.
C14_Witness ==
  /\ canvas.op = "draw"
  /\ BelowOne(canvas.progress)
  /\ \E cb \in raf :
       /\ cb.answer.id # canvas.answer
       /\ cb.handle > canvas.handle + 1
  /\ Cardinality(received) = 2

\* The animations of the one layer drawn last, the time it was drawn at
\* (progress * duration, as the fraction ctN / ctD) and its resolved props.
DrawnAnims == selectedAnswer.visualization.layers[1].animations
DrawnProps == canvas.frame[1]
ctN == canvas.progress.num * selectedAnswer.visualization.duration.n
ctD == canvas.progress.den

\* C15: a layer with one linear animation of x whose start, end, from and
\* to are numbers with start < end is drawn, at currentTime = progress *
\* duration, with its base x before start, with
\* from + (to - from) * (currentTime - start) / (end - start) inside
\* [start, end], and with to after end; for start 1000, end 3000, from 0,
\* to 100 and duration 5000 that is the base x at progress 0, 0 at 1/5,
\* 100 at 3/5 and 100 at 4/5.
C15_LinearAnimationValue ==
  (/\ canvas.op = "draw"
   /\ Len(DrawnAnims) = 1
   /\ DrawnAnims[1].property = "x"
   /\ DrawnAnims[1].easing = "linear"
   /\ \A v \in {DrawnAnims[1].start, DrawnAnims[1].end, DrawnAnims[1].from, DrawnAnims[1].to} :
        v.t = "num"
   /\ DrawnAnims[1].start.n < DrawnAnims[1].end.n) =>
    LET start == DrawnAnims[1].start.n
        end == DrawnAnims[1].end.n
        from == DrawnAnims[1].from.n
        to == DrawnAnims[1].to.n
        x == DrawnProps.x
    IN /\ ctN < start * ctD => x = BaseProps.x
       /\ (start * ctD <= ctN /\ ctN <= end * ctD) =>
            /\ x.t = "num"
            /\ x.n * ((end - start) * ctD)
                 = x.d * (from * (end - start) * ctD + (to - from) * (ctN - start * ctD))
       /\ ctN > end * ctD => x = Real(to, 1)
       /\ DrawnAnims[1] = ExampleAnim =>
            /\ canvas.progress.num = 0 => x = Real(7, 1)
            /\ canvas.progress.num * 5 = canvas.progress.den => x = Real(0, 1)
            /\ canvas.progress.num * 5 = 3 * canvas.progress.den => x = Real(100, 1)
            /\ canvas.progress.num * 5 = 4 * canvas.progress.den => x = Real(100, 1)

\* C15 witness: the animation of the example drawn inside its window, at
\* progress 1/2, where x is 75.
C15_Witness ==
  /\ canvas.op = "draw"
  /\ DrawnAnims = <<ExampleAnim>>
  /\ canvas.progress.num = 1 /\ canvas.progress.den = 2
  /\ DrawnProps.x = Real(75, 1)

\* An animation is active at the time drawn: start <= currentTime <= end.
ActiveAtDraw(anim) ==
  /\ le(OrElse(anim.start, Real(0, 1)), Real(ctN, ctD))
  /\ le(Real(ctN, ctD), OrElse(anim.end, Number(selectedAnswer.visualization.duration)))

\* C16: where two animations of one layer target the same property and
\* both are active at the time drawn, the property is drawn with the value
\* the later-declared animation computes, whatever was drawn before.
C16_LaterAnimationWins ==
  (/\ canvas.op = "draw"
   /\ Len(DrawnAnims) = 2
   /\ DrawnAnims[1].property = DrawnAnims[2].property
   /\ DrawnAnims[1].property \in PropNames
   /\ ActiveAtDraw(DrawnAnims[1])
   /\ ActiveAtDraw(DrawnAnims[2])) =>
    LET later == DrawnAnims[2]
        eased == applyEasing(div(sub(Real(ctN, ctD), OrElse(later.start, Real(0, 1))),
                                 sub(OrElse(later.end, Number(selectedAnswer.visualization.duration)),
                                     OrElse(later.start, Real(0, 1)))),
                             later.easing)
    IN DrawnProps[later.property]
         = add(Nullish(later.from, Real(0, 1)),
               mul(sub(Nullish(later.to, Real(0, 1)), Nullish(later.from, Real(0, 1))), eased))

\* C16 witness: two animations of x both active at 2500 ms, the earlier
\* one computing 75, the later one 40, and x drawn as 40.
C16_Witness ==
  /\ canvas.op = "draw"
  /\ DrawnAnims = <<ExampleAnim, Anim("x", Num(2000), Num(4000), Num(50), Num(10), "linear")>>
  /\ canvas.progress.num = 1 /\ canvas.progress.den = 2
  /\ applyAnimation(BaseProps, ExampleAnim, Real(5000, 2), Num(5000)).x = Real(75, 1)
  /\ DrawnProps.x = Real(40, 1)

\* The visualizations stored in Answers and those sent in answer_created.
StoredScenes ==
  {answers[j].visualization : j \in 1..Len(answers)}
    \cup {log[i].data.visualization : i \in {k \in 1..Len(log) : log[k].event = "answer_created"}}

\* C17: every visualization of a stored Answer or of an answer_created has
\* a number greater than 0 as duration and a sequence as layers, whatever
\* the scene call returned.
C17_DurationPositive ==
  \A scene \in StoredScenes :
    /\ scene.duration.t = "num"
    /\ scene.duration.n > 0
    /\ DOMAIN scene.layers = 1..Len(scene.layers)

\* What line 170 does keep: the duration is never absent, 0 or empty, and
\* absent or non-array layers are replaced by the empty sequence.
StoredDurationIsTruthy ==
  \A scene \in StoredScenes :
    /\ Truthy(scene.duration)
    /\ DOMAIN scene.layers = 1..Len(scene.layers)

\* The ids in the events of submission s are the ids s made on lines
\* 183-184, and its i-th answer_partial carries i tokens, the first i - 1 of
\* them being those of its previous answer_partial.
OwnIdsAndTokens(s) ==
  /\ \A e \in Range(EventsOf(s, "question_created")) :
       e.data.id = subs[s].questionId /\ e.data.answerId = subs[s].answerId
  /\ \A e \in Range(EventsOf(s, "generation_started")) :
       e.data.id = subs[s].answerId /\ e.data.questionId = subs[s].questionId
  /\ LET p == EventsOf(s, "answer_partial")
     IN \A i \in 1..Len(p) :
          /\ p[i].data.id = subs[s].answerId
          /\ p[i].data.questionId = subs[s].questionId
          /\ Len(p[i].data.textPartial) = i
          /\ i > 1 => IsPrefix(p[i - 1].data.textPartial, p[i].data.textPartial)

\* C18: with submissions interleaved at their awaits, every event of a
\* submission and the Answer it inserts carry the question id and the
\* answer id of that submission, its answer_partial texts are built from
\* its own tokens only, and no two Answers in Store have the same id.
C18_CoordinatorsTouchOwnRecords ==
  /\ \A s \in Subs :
       /\ OwnIdsAndTokens(s)
       /\ \A e \in Range(EventsOf(s, "answer_created")) :
            /\ e.data.id = subs[s].answerId
            /\ e.data \in Range(answers)
  /\ \A i, j \in 1..Len(answers) : answers[i].id = answers[j].id => i = j

\* What holds of interleaved submissions: the same, with the Answer of a
\* submission carrying the id its response names, which after a fallback
\* is an id no submission made on line 184.
SubmissionsDoNotInterfere ==
  /\ \A s \in Subs :
       /\ OwnIdsAndTokens(s)
       /\ \A e \in Range(EventsOf(s, "answer_created")) :
            /\ e.data.id = subs[s].response.answerId
            /\ e.data \in Range(answers)
            /\ subs[s].pc = "completed" => e.data.id = subs[s].answerId
            /\ \A r \in Subs \ {s} : e.data.id # subs[r].answerId
  /\ \A i, j \in 1..Len(answers) : answers[i].id = answers[j].id => i = j
  /\ \A s, r \in Subs :
       s # r /\ subs[s].questionId # NoId =>
         subs[s].questionId # subs[r].questionId /\ subs[s].answerId # subs[r].answerId

\* The submissions whose question_created was broadcast and whose
\* answer_created was not.
Generating ==
  {s \in Subs : EventsOf(s, "question_created") # <<>> /\ EventsOf(s, "answer_created") = <<>>}

\* No Answer of a submission that is still generating is in Store: every
\* Answer held is that of a submission whose answer_created was broadcast.
NoAnswerWhileGenerating ==
  /\ Len(answers) = Cardinality({s \in Subs : EventsOf(s, "answer_created") # <<>>})
  /\ \A s \in Generating, j \in 1..Len(answers) : answers[j].id # subs[s].answerId

\* C19: every step leaves the Questions and the Answers held before in
\* place, appending at most, and leads to a state where no Answer of a
\* submission between its question_created and its answer_created is in Store.
C19_StoreAppendOnly ==
  [][/\ IsPrefix(questions, questions')
     /\ IsPrefix(answers, answers')
     /\ NoAnswerWhileGenerating']_vars

\* C19 witness: one submission has its Answer in Store while another has
\* broadcast answer_partial and has none.
C19_Witness ==
  /\ Len(questions) = 2
  /\ Len(answers) = 1
  /\ \E s \in Generating : EventsOf(s, "answer_partial") # <<>>
  /\ \E r \in Subs : subs[r].pc = "fallback"

\* The tick of callback cb computes min(elapsed / duration, 1), requests
\* its successor exactly when that is below 1, and when it requests none it
\* has drawn progress 1 and leaves the loop stopped.
TickStep(cb) ==
  Tick(cb) =>
    LET d == Duration(cb.answer.visualization)
        p == canvas'.progress
        elapsed == canvas'.elapsed
    IN /\ canvas'.op = "draw"
       /\ elapsed = now - startTimeRef'
       /\ d.t = "num" =>
            /\ ~p.nan
            /\ IF d.n > 0 /\ elapsed > d.n THEN p.num = p.den
               ELSE p.num * d.n = elapsed * p.den
       /\ raf' # {} <=> BelowOne(p)
       /\ raf' = {} =>
            /\ ~p.nan /\ p.num = p.den
            /\ animationRef' = 0
            /\ ~queued'.isPlaying

\* C20: every tick computes progress = min(elapsed / duration, 1) and
\* requests the next tick exactly when progress < 1; a running loop comes
\* to a stop (no callback held, isPlaying false), which without a pause,
\* reset or click happens at a tick that drew progress 1; and while stopped
\* no callback is held, so that nothing is drawn until play.
C20_PlaybackReachesEnd ==
  /\ [][\A cb \in raf : TickStep(cb)]_player
  /\ [](~isPlaying /\ ~queued.isPlaying => raf = {})
  /\ (raf # {}) ~> (raf = {} /\ ~isPlaying /\ ~queued.isPlaying)

\* C21: a layer with one animation of x, y whose end equals its start, drawn
\* at currentTime = start, has that property at the value to, not at NaN.
C21_InstantAnimationResolvesToTo ==
  (/\ canvas.op = "draw"
   /\ Len(DrawnAnims) = 1
   /\ DrawnAnims[1].property \in PropNames
   /\ DrawnAnims[1].start.t = "num"
   /\ DrawnAnims[1].end = DrawnAnims[1].start
   /\ Truthy(DrawnAnims[1].end)
   /\ ctN = DrawnAnims[1].start.n * ctD) =>
    /\ DrawnProps[DrawnAnims[1].property] # NaN
    /\ DrawnProps[DrawnAnims[1].property] = Number(DrawnAnims[1].to)

\* The animation's end lies before the time drawn: currentTime > end.
PastEndAtDraw(anim) ==
  lt(OrElse(anim.end, Number(selectedAnswer.visualization.duration)), Real(ctN, ctD))

\* The props the animations declared before the last one produce from the
\* layer's base props at the time drawn.
DrawnByEarlier ==
  forEachAnim(selectedAnswer.visualization.layers[1].props,
              SubSeq(DrawnAnims, 1, Len(DrawnAnims) - 1),
              Real(ctN, ctD), selectedAnswer.visualization.duration)

\* C22: where the last-declared animation of a layer is past its end at the
\* time drawn, an orbit leaves x and y as the base props and the
\* earlier-declared animations produced them, and a non-orbit animation
\* sets its own property to to and leaves the other property alone.
C22_OrbitPastEndAppliesNothing ==
  (/\ canvas.op = "draw"
   /\ Len(DrawnAnims) >= 1
   /\ PastEndAtDraw(DrawnAnims[Len(DrawnAnims)])) =>
    LET last == DrawnAnims[Len(DrawnAnims)]
    IN IF last.property = "orbit"
       THEN /\ DrawnProps.x = DrawnByEarlier.x
            /\ DrawnProps.y = DrawnByEarlier.y
       ELSE /\ DrawnProps[last.property] = Number(last.to)
            /\ \A q \in PropNames \ {last.property} : DrawnProps[q] = DrawnByEarlier[q]

\* An orbit over [1000, 3000] declared after the animation of x is drawn at
\* 4000 ms: x keeps the 100 the earlier animation left, y its base value.
C22_Witness ==
  /\ canvas.op = "draw"
  /\ DrawnAnims = <<ExampleAnim, Anim("orbit", Num(1000), Num(3000), Undef, Undef, "linear")>>
  /\ canvas.progress.num = 4 /\ canvas.progress.den = 5
  /\ DrawnProps.x = Real(100, 1)
  /\ DrawnProps.y = BaseProps.y

\* The Questions a submission inserted: those of its question_created events.
InsertedQuestions(s) ==
  {questions[i] : i \in {i \in 1..Len(questions) :
     \E k \in 1..Len(EventsOf(s, "question_created")) :
       EventsOf(s, "question_created")[k].data = questions[i]}}

\* The Answers a submission inserted: those of its answer_created events.
InsertedAnswers(s) ==
  {answers[j] : j \in {j \in 1..Len(answers) :
     \E k \in 1..Len(EventsOf(s, "answer_created")) :
       EventsOf(s, "answer_created")[k].data = answers[j]}}

\* C23: the questionId and the answerId of every success response are the
\* id of the Question the submission inserted and the id of the Answer
\* inserted for it, on the success path and on the fallback path.
C23_ResponseIdsAreStoredIds ==
  \A s \in Subs :
    subs[s].response.success =>
      /\ \E q \in InsertedQuestions(s) : q.id = subs[s].response.questionId
      /\ \E a \in InsertedAnswers(s) : a.id = subs[s].response.answerId

\* The part of C23 that holds: the answerId of a success response is the id
\* of the Answer the submission inserted, and on the success path the
\* questionId is the id of its Question.
ResponseAnswerIdIsStoredId ==
  \A s \in Subs :
    subs[s].response.success =>
      /\ \E a \in InsertedAnswers(s) : a.id = subs[s].response.answerId
      /\ subs[s].pc = "completed" =>
           \E q \in InsertedQuestions(s) : q.id = subs[s].response.questionId

====
